---- MODULE Spec2Model ----
(***************************************************************************)
(* The imagery gateway of src/main.py: POST /get-image (get_image) and     *)
(* GET /download-image (download_image), served by one process with one    *)
(* event loop.  get_image is a coroutine without an await, so the event    *)
(* loop runs one get_image handler at a time; the FileResponse returned by *)
(* download_image stats, opens and reads last_image.png in worker threads, *)
(* chunk by chunk, after the handler has returned, so those file accesses  *)
(* interleave with a render that is writing the same file.                 *)
(***************************************************************************)
EXTENDS Integers, Sequences, FiniteSets, TLC

\* ------------------------------------------------------------------ bounds
MaxRequests == 2      \* requests issued in one behaviour, each on its own connection
MaxArity == 5         \* longest bbox array a client sends
MaxVersions == 1      \* distinct rasters the provider may return for one request
MinPngUnits == 2      \* size of the smallest encoded image, in file units

\* FileResponse reads the file in chunks of this many file units.
ChunkSize == 2

VARIABLES
    conn,          \* per connection: the request, the handler's position, the response
    file,          \* last_image.png: [exists, data]
    running,       \* the connection whose handler occupies the event loop, or 0
    issued,        \* requests issued so far
    providerCalls, \* invocations of sentinel_request.get_data()
    lastOk,        \* the body returned by the latest get_image call, when it succeeded
    lastGet,       \* the connection of the latest get_image handler run, or 0
    everRendered   \* some get_image call has succeeded

vars == <<conn, file, running, issued, providerCalls, lastOk, lastGet,
          everRendered>>

Slots == 1..MaxRequests

\* ------------------------------------------------------------ request model
\* float(e) as pydantic applies it to one JSON element of bbox ("1", "2": numbers;
\* "x": anything that is no number): a number, or no number.
NotANumber == 0 - 1

ParseFloat(e) ==
    CASE e = "1" -> 1
      [] e = "2" -> 2
      [] OTHER -> NotANumber

LayerInputs == {"true_color", "ndvi", "foo"}

\* The bbox arrays clients send: a rectangle, one with a non-numeric element, one too
\* short and one too long.
BboxInputs ==
    {<<"1", "2", "2", "1">>, <<"1", "x", "2", "1">>, <<"1", "2", "2">>,
     [i \in 1..MaxArity |-> "1"]}

\* class BboxRequest: bbox: List[float], layer_type: Literal["true_color", "ndvi"]
BboxRequest(bbox, layer) ==
    [ok |-> (\A i \in 1..Len(bbox) : ParseFloat(bbox[i]) # NotANumber)
                /\ layer \in {"true_color", "ndvi"},
     bbox |-> [i \in 1..Len(bbox) |-> ParseFloat(bbox[i])],
     layer_type |-> layer]

NoExc == [type |-> "", msg |-> ""]

Min2(a, b) == IF a < b THEN a ELSE b
Max2(a, b) == IF a < b THEN b ELSE a

\* A BBox that takes an array of any length.
BBoxAnyArity(b) ==
    [ok |-> TRUE, value |-> <<1, 1, 1, 1>>, exc |-> NoExc]

\* BBox(bbox=request.bbox, crs=CRS.WGS84): four numbers, ordered into min and max
\* corners; an array of any other length raises.
BBox(b) ==
    IF Len(b) = 4
    THEN [ok |-> TRUE,
          value |-> <<Min2(b[1], b[3]), Min2(b[2], b[4]), Max2(b[1], b[3]), Max2(b[2], b[4])>>,
          exc |-> NoExc]
    ELSE [ok |-> FALSE, value |-> <<>>,
          exc |-> [type |-> "TypeError", msg |-> "invalid bbox representation"]]

\* The mapping with its two scripts exchanged.
EVALSCRIPTS_Swapped(layer) ==
    CASE layer = "true_color" -> "evalscript_ndvi"
      [] layer = "ndvi" -> "evalscript_true_color"
      [] OTHER -> ""

\* EVALSCRIPTS.get(layer_type): the script, or "" for None.
EVALSCRIPTS(layer) ==
    CASE layer = "true_color" -> "evalscript_true_color"
      [] layer = "ndvi" -> "evalscript_ndvi"
      [] OTHER -> ""

NoRaster == [script |-> "", bbox |-> <<>>, ver |-> 0]

\* What sentinel_request.get_data()[0] may yield for a request: a failure of the
\* provider or the network, an array Image.fromarray rejects, or a raster.
ProviderOutcomes(script, bbox) ==
    {[kind |-> "error", raster |-> NoRaster,
      exc |-> [type |-> "DownloadFailedException", msg |-> "provider request failed"]],
     [kind |-> "bad_array", raster |-> NoRaster,
      exc |-> [type |-> "TypeError", msg |-> "cannot handle this data type"]]}
    \cup {[kind |-> "ok", raster |-> [script |-> script, bbox |-> bbox, ver |-> v],
           exc |-> NoExc] : v \in 1..MaxVersions}

\* A handler that calls the provider a second time when the first call fails.
ProviderCallsRetrying(out) == IF out.kind = "error" THEN 2 ELSE 1

\* How often the handler invokes get_data() for one request: once, whatever it answers.
ProviderCallsFor(out) == 1

\* A save to disk in another format than the one streamed to the caller.
FormatOfJpg(target) == IF target = "last_image.png" THEN "JPEG" ELSE "PNG"

\* image.save('last_image.png'): the format follows the file name's extension.
FormatOf(target) == "PNG"

\* The encoded image as a sequence of file units; its size depends on the image.
UnitsOf(raster) ==
    MinPngUnits + (IF raster.script = "evalscript_ndvi" THEN 0 ELSE 1)

Encode(raster, fmt) ==
    [k \in 1..UnitsOf(raster) |-> [fmt |-> fmt, raster |-> raster, k |-> k]]

Hole == [fmt |-> "", raster |-> NoRaster, k |-> 0]

\* A write of one unit at offset pos of an open file.
WriteAt(data, pos, unit) ==
    [k \in 1..Max2(Len(data), pos + 1) |->
        IF k = pos + 1 THEN unit ELSE IF k <= Len(data) THEN data[k] ELSE Hole]

\* file.read(chunk_size) at offset pos.
ReadChunk(data, pos) ==
    IF pos >= Len(data) THEN <<>>
    ELSE SubSeq(data, pos + 1, Min2(pos + ChunkSize, Len(data)))

\* ---------------------------------------------------------------- responses
\* raise HTTPException(status_code=400, detail=...) inside the try block
LayerException == [type |-> "HTTPException", msg |-> "400: invalid layer type"]

\* A catch-all that swallows the failure.
ExceptSwallow(e) ==
    [status |-> 200, ctype |-> "application/json", detail |-> ""]

\* except Exception as e: raise HTTPException(status_code=500, detail=str(e))
ExceptException(e) ==
    [status |-> 500, ctype |-> "application/json", detail |-> e.msg]

\* FastAPI's answer to a body that does not fit BboxRequest; the handler is not called.
RequestValidationError ==
    [status |-> 422, ctype |-> "application/json", detail |-> "validation error"]

NoFd == [open |-> FALSE, live |-> FALSE, data |-> <<>>]
NoFile == [exists |-> FALSE, data |-> <<>>]
NoBody == [valid |-> FALSE, body |-> <<>>]

Idle ==
    [pc |-> "idle", kind |-> "none", bbox |-> <<>>, layer |-> "",
     status |-> 0, ctype |-> "", detail |-> "", body |-> <<>>, exc |-> NoExc,
     script |-> "", raster |-> NoRaster, pos |-> 0, created |-> FALSE, pre |-> NoFile,
     found |-> FALSE, chunk |-> <<>>, fd |-> NoFd, aborted |-> FALSE,
     expect |-> NoBody, clean |-> TRUE, ov |-> {}]

\* Handlers that run beside each other (a handler that does not hold the event loop).
LoopNeverHeld == TRUE

\* The event loop runs one coroutine at a time: async def get_image has no await, so a
\* handler holds the loop from its first statement to its return.
LoopFree == running = 0

\* The get-image requests that are being handled, and the downloads past their handler.
InFlightGets ==
    {q \in Slots : conn[q].kind = "get" /\ conn[q].pc \in {"arrived", "saving"}}

Downloading ==
    {q \in Slots : conn[q].kind = "download" /\ conn[q].pc \notin {"idle", "arrived", "done"}}

\* last_image.png lives in the working directory and outlives the process: at start
\* it is absent, or it is the image an earlier run of the service left there.
InitialFiles ==
    {NoFile,
     [exists |-> TRUE,
      data |-> Encode([script |-> "evalscript_true_color", bbox |-> <<1, 1, 2, 2>>,
                       ver |-> 1], "PNG")]}

Init ==
    /\ conn = [r \in Slots |-> Idle]
    /\ file \in InitialFiles
    /\ running = 0
    /\ issued = 0
    /\ providerCalls = 0
    /\ lastOk = NoBody
    /\ lastGet = 0
    /\ everRendered = FALSE

\* A client sends POST /get-image with a body, on a new connection.
ArriveGet(r) ==
    /\ conn[r].pc = "idle"
    /\ r = issued + 1
    /\ \E bbox \in BboxInputs, layer \in LayerInputs :
          conn' = [conn EXCEPT ![r] =
                     [Idle EXCEPT !.pc = "arrived", !.kind = "get", !.bbox = bbox,
                                  !.layer = layer, !.ov = InFlightGets]]
    /\ issued' = issued + 1
    /\ UNCHANGED <<file, running, providerCalls, lastOk, lastGet, everRendered>>

\* A client sends GET /download-image.
ArriveDownload(r) ==
    /\ conn[r].pc = "idle"
    /\ r = issued + 1
    /\ conn' = [conn EXCEPT ![r] = [Idle EXCEPT !.pc = "arrived", !.kind = "download"]]
    /\ issued' = issued + 1
    /\ UNCHANGED <<file, running, providerCalls, lastOk, lastGet, everRendered>>

\* A get_image call runs: every download in progress has a render running beside it.
Disturbed(q) ==
    IF q \in Downloading THEN [conn[q] EXCEPT !.clean = FALSE] ELSE conn[q]

\* The response that ends request r, with the transient fields cleared.
Finished(c, resp, exc) ==
    [c EXCEPT !.pc = "done", !.status = resp.status, !.ctype = resp.ctype,
              !.detail = resp.detail, !.exc = exc, !.raster = NoRaster, !.pos = 0,
              !.created = FALSE, !.pre = NoFile, !.chunk = <<>>, !.fd = NoFd]

\* get_image up to the point where image.save('last_image.png') has opened the file:
\* the request model, BBox, the layer check, the provider call, Image.fromarray, open.
\* out is what the provider answers.
get_image(c, out) ==
    LET v == BboxRequest(c.bbox, c.layer)
        b == BBox(v.bbox)
        s == EVALSCRIPTS(v.layer_type)
        failed(e, script, n) ==
            [next |-> Finished([c EXCEPT !.script = script], ExceptException(e), e),
             calls |-> n, opened |-> FALSE]
    IN  IF ~v.ok
        THEN [next |-> Finished(c, RequestValidationError, NoExc),
              calls |-> 0, opened |-> FALSE]
        ELSE IF ~b.ok THEN failed(b.exc, "", 0)
        ELSE IF s = "" THEN failed(LayerException, "", 0)
        ELSE IF out.kind # "ok" THEN failed(out.exc, s, ProviderCallsFor(out))
        ELSE [next |-> [c EXCEPT !.pc = "saving", !.script = s, !.raster = out.raster,
                                 !.pos = 0, !.created = ~file.exists, !.pre = file],
              calls |-> ProviderCallsFor(out), opened |-> TRUE]

\* The event loop enters the handler of POST /get-image on connection r.
GetImageBegin(r) ==
    /\ conn[r].pc = "arrived"
    /\ conn[r].kind = "get"
    /\ LoopFree
    /\ LET c == conn[r]
           v == BboxRequest(c.bbox, c.layer)
           b == BBox(v.bbox)
       IN \E out \in ProviderOutcomes(EVALSCRIPTS(v.layer_type), b.value) :
            LET res == get_image(c, out)
            IN  /\ conn' = [q \in Slots |-> IF q = r THEN res.next ELSE Disturbed(q)]
                /\ file' = IF res.opened THEN [exists |-> TRUE, data |-> <<>>] ELSE file
                /\ running' = IF res.opened THEN r ELSE running
                /\ providerCalls' = providerCalls + res.calls
    /\ lastOk' = NoBody
    /\ lastGet' = r
    /\ UNCHANGED <<issued, everRendered>>

\* image.save('last_image.png') writes the next unit of the encoded image.
SaveWrite(r) ==
    /\ conn[r].pc = "saving"
    /\ LET c == conn[r]
           png == Encode(c.raster, FormatOf("last_image.png"))
       IN /\ c.pos < Len(png)
          /\ file' = [exists |-> TRUE, data |-> WriteAt(file.data, c.pos, png[c.pos + 1])]
          /\ conn' = [q \in Slots |->
                        IF q = r THEN [c EXCEPT !.pos = c.pos + 1] ELSE Disturbed(q)]
    /\ UNCHANGED <<running, issued, providerCalls, lastOk, lastGet, everRendered>>

\* image.save('last_image.png') fails part-way (the encoder or a write raises): a file
\* this save created is removed, a file that existed before stays as far as written.
SaveFail(r) ==
    /\ conn[r].pc = "saving"
    /\ LET c == conn[r]
           png == Encode(c.raster, FormatOf("last_image.png"))
           e == [type |-> "OSError", msg |-> "write to last_image.png failed"]
       IN /\ c.pos < Len(png)
          /\ file' = IF c.created THEN NoFile ELSE file
          /\ conn' = [q \in Slots |->
                        IF q = r THEN Finished(c, ExceptException(e), e)
                        ELSE IF c.created /\ conn[q].fd.open /\ conn[q].fd.live
                        THEN [Disturbed(q) EXCEPT !.fd = [open |-> TRUE, live |-> FALSE,
                                                          data |-> file.data]]
                        ELSE Disturbed(q)]
    /\ running' = 0
    /\ UNCHANGED <<issued, providerCalls, lastOk, lastGet, everRendered>>

\* The file is written: image.save(buffer, format="PNG"), StreamingResponse(buffer).
GetImageEnd(r) ==
    /\ conn[r].pc = "saving"
    /\ LET c == conn[r]
           png == Encode(c.raster, FormatOf("last_image.png"))
           buffer == Encode(c.raster, "PNG")
       IN /\ c.pos = Len(png)
          /\ conn' = [q \in Slots |->
                        IF q = r
                        THEN [Finished(c, [status |-> 200, ctype |-> "image/png",
                                           detail |-> ""], NoExc) EXCEPT !.body = buffer]
                        ELSE Disturbed(q)]
          /\ lastOk' = [valid |-> TRUE, body |-> buffer]
    /\ running' = 0
    /\ everRendered' = TRUE
    /\ UNCHANGED <<file, issued, providerCalls, lastGet>>

\* download_image returns FileResponse(path="last_image.png"); its stat is handed to a thread.
DownloadImage(r) ==
    /\ conn[r].pc = "arrived"
    /\ conn[r].kind = "download"
    /\ LoopFree
    /\ conn' = [conn EXCEPT ![r] = [@ EXCEPT !.pc = "stat_pending", !.expect = lastOk,
                                             !.clean = TRUE]]
    /\ UNCHANGED <<file, running, issued, providerCalls, lastOk, lastGet,
                   everRendered>>

\* The worker thread runs os.stat(path).
ThreadStat(r) ==
    /\ conn[r].pc = "stat_pending"
    /\ conn' = [conn EXCEPT ![r] = [@ EXCEPT !.pc = "stat_ready", !.found = file.exists]]
    /\ UNCHANGED <<file, running, issued, providerCalls, lastOk, lastGet,
                   everRendered>>

\* FileResponse resumes on the event loop: a missing file raises RuntimeError, which
\* the server answers with 500; otherwise the 200 header goes out and the open is
\* handed to a thread.
StartResponse(r) ==
    /\ conn[r].pc = "stat_ready"
    /\ LoopFree
    /\ conn' = [conn EXCEPT ![r] =
                  IF ~conn[r].found
                  THEN Finished(conn[r],
                                [status |-> 500, ctype |-> "text/plain",
                                 detail |-> "Internal Server Error"],
                                [type |-> "RuntimeError",
                                 msg |-> "File at path last_image.png does not exist."])
                  ELSE [@ EXCEPT !.pc = "open_pending", !.status = 200,
                                 !.ctype = "image/png"]]
    /\ UNCHANGED <<file, running, issued, providerCalls, lastOk, lastGet,
                   everRendered>>

\* The worker thread opens the file; the first read is handed to a thread.
ThreadOpen(r) ==
    /\ conn[r].pc = "open_pending"
    /\ conn' = [conn EXCEPT ![r] =
                  IF file.exists
                  THEN [@ EXCEPT !.pc = "read_pending",
                                 !.fd = [open |-> TRUE, live |-> TRUE, data |-> <<>>]]
                  ELSE [Finished(@, [status |-> 200, ctype |-> "image/png", detail |-> ""],
                                 [type |-> "FileNotFoundError", msg |-> "last_image.png"])
                          EXCEPT !.aborted = TRUE]]
    /\ UNCHANGED <<file, running, issued, providerCalls, lastOk, lastGet,
                   everRendered>>

\* What the open descriptor of r reads: the file at the path, or the removed file.
Content(r) == IF conn[r].fd.live THEN file.data ELSE conn[r].fd.data

\* A read that waits while a render has the file open for writing.
ThreadReadLocked(r) ==
    /\ conn[r].pc = "read_pending"
    /\ \A q \in Slots : conn[q].pc # "saving"
    /\ conn' = [conn EXCEPT ![r] = [@ EXCEPT !.pc = "chunk_ready",
                                             !.chunk = ReadChunk(Content(r), conn[r].pos)]]
    /\ UNCHANGED <<file, running, issued, providerCalls, lastOk, lastGet,
                   everRendered>>

\* The worker thread runs file.read(chunk_size).
ThreadRead(r) ==
    /\ conn[r].pc = "read_pending"
    /\ conn' = [conn EXCEPT ![r] = [@ EXCEPT !.pc = "chunk_ready",
                                             !.chunk = ReadChunk(Content(r), conn[r].pos)]]
    /\ UNCHANGED <<file, running, issued, providerCalls, lastOk, lastGet,
                   everRendered>>

\* FileResponse resumes on the event loop and sends the chunk; a full chunk asks for more.
SendChunk(r) ==
    /\ conn[r].pc = "chunk_ready"
    /\ LoopFree
    /\ LET c == conn[r]
           sent == [c EXCEPT !.body = c.body \o c.chunk, !.pos = c.pos + Len(c.chunk),
                             !.chunk = <<>>]
       IN conn' = [conn EXCEPT ![r] =
                     IF Len(c.chunk) = ChunkSize
                     THEN [sent EXCEPT !.pc = "read_pending"]
                     ELSE Finished(sent, [status |-> 200, ctype |-> "image/png",
                                          detail |-> ""], NoExc)]
    /\ UNCHANGED <<file, running, issued, providerCalls, lastOk, lastGet,
                   everRendered>>

Next ==
    \E r \in Slots :
        \/ ArriveGet(r)
        \/ ArriveDownload(r)
        \/ GetImageBegin(r)
        \/ SaveWrite(r)
        \/ SaveFail(r)
        \/ GetImageEnd(r)
        \/ DownloadImage(r)
        \/ ThreadStat(r)
        \/ StartResponse(r)
        \/ ThreadOpen(r)
        \/ ThreadRead(r)
        \/ SendChunk(r)

Spec == Init /\ [][Next]_vars

\* ------------------------------------------------------------------ claims
DoneGet(r) == conn[r].kind = "get" /\ conn[r].pc = "done"
DoneDownload(r) == conn[r].kind = "download" /\ conn[r].pc = "done"
KnownLayers == {"true_color", "ndvi"}
NumericJson == {"1", "2"}
WrongArity(bbox) == Len(bbox) # 4
NonNumeric(bbox) == \E i \in 1..Len(bbox) : bbox[i] \notin NumericJson
MalformedBbox(bbox) == WrongArity(bbox) \/ NonNumeric(bbox)
ScriptFor(layer) ==
    IF layer = "true_color" THEN "evalscript_true_color" ELSE "evalscript_ndvi"

\* The complete images a render can produce.
CompleteImages ==
    {Encode([script |-> s, bbox |-> b, ver |-> v], "PNG") :
        s \in {"evalscript_true_color", "evalscript_ndvi"},
        b \in {<<1, 1, 2, 2>>, <<1, 1, 1, 1>>},
        v \in 1..MaxVersions}

\* C1: every get-image request with a layer_type other than true_color and ndvi,
\* whatever its bbox, is answered with status 400.
C1_UnknownLayerIs400 ==
    \A r \in Slots :
        (DoneGet(r) /\ conn[r].layer \notin KnownLayers) => conn[r].status = 400

\* C2: a download-image call that follows a successful get-image call, with no other
\* get-image call running from that call to the end of the download, returns the
\* same bytes the get-image call returned.
C2_DownloadReturnsLastRender ==
    \A r \in Slots :
        (DoneDownload(r) /\ conn[r].expect.valid /\ conn[r].clean)
            => /\ conn[r].status = 200
               /\ conn[r].ctype = "image/png"
               /\ ~conn[r].aborted
               /\ conn[r].body = conn[r].expect.body

C2_Witness ==
    \E g, d \in Slots :
        /\ DoneGet(g) /\ conn[g].status = 200 /\ conn[g].body # <<>>
        /\ DoneDownload(d) /\ conn[d].expect.valid /\ conn[d].clean
        /\ conn[d].body = conn[g].body

\* C3: a download-image call made while the last-image file is absent and no
\* get-image call has ever succeeded is answered with a not-found error.
C3_MissingFileIsNotFound ==
    \A r \in Slots :
        (DoneDownload(r) /\ ~conn[r].found /\ ~everRendered) => conn[r].status = 404

\* C4: when two get-image calls with different layer types overlap and both have
\* completed, the last-image file is, in full, the image of exactly one of them, the
\* one whose handler ran last.
C4_LastWriterWins ==
    \A r1, r2 \in Slots :
        (/\ DoneGet(r1) /\ DoneGet(r2)
         /\ conn[r1].status = 200 /\ conn[r2].status = 200
         /\ conn[r1].layer # conn[r2].layer
         /\ r1 \in conn[r2].ov
         /\ lastGet \in {r1, r2})
            => /\ file.exists
               /\ file.data = conn[lastGet].body
               /\ conn[r1].body # conn[r2].body
               /\ file.data \in CompleteImages

C4_Witness ==
    \E r1, r2 \in Slots :
        /\ DoneGet(r1) /\ DoneGet(r2)
        /\ conn[r1].status = 200 /\ conn[r2].status = 200
        /\ conn[r1].layer # conn[r2].layer
        /\ r1 \in conn[r2].ov
        /\ lastGet = r1
        /\ file.data = conn[r1].body

\* The step that handles a get-image request with a malformed bbox ends the request
\* with one of the statuses, without image bytes and without touching the file.
MalformedRejectedWith(statuses) ==
    \A r \in Slots :
        (/\ conn[r].pc = "arrived" /\ conn[r].kind = "get"
         /\ MalformedBbox(conn[r].bbox)
         /\ conn'[r] # conn[r])
            => /\ conn'[r].pc = "done"
               /\ conn'[r].status \in statuses
               /\ conn'[r].body = <<>>
               /\ conn'[r].ctype # "image/png"
               /\ file' = file

C6_ValidIs200 ==
    \A r \in Slots :
        (DoneGet(r) /\ ~MalformedBbox(conn[r].bbox) /\ conn[r].layer \in KnownLayers)
            => /\ conn[r].status = 200
               /\ conn[r].ctype = "image/png"
               /\ conn[r].script = ScriptFor(conn[r].layer)

\* C6 (amended): every valid get-image request with a known layer builds its provider
\* request with that layer's script; it is answered with 200 and image/png, the image
\* rendered by that script, when no step of the render fails, and with 500 otherwise.
C6_ValidRenders ==
    \A r \in Slots :
        (DoneGet(r) /\ ~MalformedBbox(conn[r].bbox) /\ conn[r].layer \in KnownLayers)
            => /\ conn[r].script = ScriptFor(conn[r].layer)
               /\ conn[r].exc = NoExc =>
                    /\ conn[r].status = 200
                    /\ conn[r].ctype = "image/png"
                    /\ conn[r].body \in CompleteImages
                    /\ \A k \in 1..Len(conn[r].body) :
                          conn[r].body[k].raster.script = ScriptFor(conn[r].layer)
               /\ conn[r].exc # NoExc => conn[r].status = 500

C6_Witness ==
    \E r \in Slots :
        /\ DoneGet(r) /\ conn[r].layer = "ndvi" /\ ~MalformedBbox(conn[r].bbox)
        /\ conn[r].status = 200 /\ conn[r].ctype = "image/png"
        /\ conn[r].script = "evalscript_ndvi"

\* C7: every failure inside the get-image handler other than the layer check (BBox
\* construction, the provider call, decoding, the write of the file) ends the request
\* with status 500 and the failure's message as detail.
C7_FailuresAre500 ==
    \A r \in Slots :
        (DoneGet(r) /\ conn[r].exc # NoExc /\ conn[r].exc.type # "HTTPException")
            => /\ conn[r].status = 500
               /\ conn[r].detail = conn[r].exc.msg
               /\ conn[r].body = <<>>

C7_Witness ==
    \E r1, r2 \in Slots :
        /\ DoneGet(r1) /\ conn[r1].exc.type = "DownloadFailedException"
        /\ conn[r1].status = 500 /\ conn[r1].detail = "provider request failed"
        /\ DoneGet(r2) /\ conn[r2].exc.type = "OSError" /\ conn[r2].status = 500

\* C8: nothing orders a download's reads against a render's writes: a read of the
\* file that a download has pending can always run, also while a render has the file
\* open and partly written.
C8_ReadsAreNotLocked ==
    \A r \in Slots : conn[r].pc = "read_pending" => ENABLED ThreadRead(r)

\* One successful get-image call and one download-image call that ran beside it; the
\* download's response went out whole (status 200, not aborted) and is the complete
\* image of no render.
C8_Witness ==
    \E g, d \in Slots :
        /\ issued = 2
        /\ DoneGet(g) /\ conn[g].status = 200
        /\ DoneDownload(d) /\ conn[d].status = 200 /\ ~conn[d].aborted
        /\ ~conn[d].clean
        /\ conn[d].body # <<>>
        /\ conn[d].body \notin CompleteImages

\* C9: the provider has been invoked exactly once for each request that passed
\* validation and request construction.
C9_OneProviderCallPerRequest ==
    providerCalls =
        Cardinality({r \in Slots :
                        /\ conn[r].kind = "get" /\ conn[r].pc \in {"saving", "done"}
                        /\ ~MalformedBbox(conn[r].bbox)
                        /\ conn[r].layer \in KnownLayers})

C9_Witness ==
    \E r1, r2 \in Slots :
        /\ r1 < r2
        /\ DoneGet(r1) /\ DoneGet(r2)
        /\ conn[r1].bbox = conn[r2].bbox /\ conn[r1].layer = conn[r2].layer
        /\ conn[r1].status = 200 /\ conn[r2].status = 200
        /\ providerCalls = 2

\* C10: a request that ends in an error response, and every download-image request,
\* leaves the last-image file as it was before the request.
C10_ErrorsLeaveFileAlone ==
    [][\A r \in Slots :
          (conn[r].pc # "done" /\ conn'[r].pc = "done" /\ conn'[r].status # 200)
              => file' = (IF conn[r].pc = "saving" THEN conn[r].pre ELSE file)]_vars
====
